---- MODULE Spec2Model ----
(***************************************************************************)
(* A model of package flagr: the flag Set (a wrapper of the standard       *)
(* library FlagSet that adds a provenance map), its typed value boxes      *)
(* (value[T], slice[T,S]) and the Parse pipeline that runs the primary     *)
(* argument parse followed by an ordered chain of extra parsers.           *)
(***************************************************************************)
EXTENDS Integers, Sequences, FiniteSets, TLC

(***************************************************************************)
(* Bounds of the model.                                                    *)
(***************************************************************************)
MaxArgs == 2      \* flag occurrences in one argument list
MaxPasses == 3    \* extra parsers handed to one Parse call
MaxParses == 1    \* Parse calls on one Set
MaxSets == 1      \* Set calls made outside of a Parse call

(***************************************************************************)
(* Inputs: flag names, raw strings, errors.                                *)
(***************************************************************************)
Names == {"a", "b", "c"}

\* The names in the order sort.Slice on Flag.Name puts them (lexicographic).
NameOrder == <<"a", "b", "c">>

\* The raw strings a user types on the command line or hands to Set.Set;
\* the extra parsers' sources hold other numbers (see Parsers).
RawVals == {"1", "x"}

nil == <<>>
ErrHelp == <<"flag: help requested">>
sentinel == <<"sentinel">>
ErrNotExist == <<"file does not exist">>

ContinueOnError == 0
ExitOnError == 1
PanicOnError == 2
\* 3 stands for any ErrorHandling value that is none of the three constants.
ErrorHandlings == {ContinueOnError, ExitOnError, PanicOnError, 3}

SourceDefaultVal == <<"default">>
SourceFlags == <<"flags">>

VARIABLES
    formal,         \* fs.formal: the declared flags
    kind,           \* per declared flag: "value" (value[T]) or "slice" (slice[T,S])
    defValue,       \* per declared flag: the default it was declared with
    value,          \* per declared flag: *Value of its value box
    written,        \* per declared flag: slice.written
    actual,         \* fs.actual: the flags that have been set
    provideMap,     \* set.provideMap
    parsed,         \* fs.parsed
    errorHandling,  \* fs.errorHandling
    pc,             \* "idle"; inside Parse: "args" (primary parse), "passes" (extra parsers);
                    \* "returned" (an operation returned, ret holds its result); "exited"; "panicked"
    nArgs,          \* the arguments the running primary parse has consumed
    nPasses,        \* len(extraParsers) of the running Parse call
    passLog,        \* the extra parsers the running Parse call has invoked: the parser p, the
                    \* flags its callback saw, the error it returned, the flags it set (did)
    hist,           \* observations of the running call (see NoHist)
    ret,            \* what the last operation returned
    exitCode,       \* the code os.Exit was called with, -1 while running
    nParses,
    nSets,
    fed,            \* per declared flag: the values that the successful Set calls on the
                    \* flag parsed, in the order of the calls
    \* A value box on the Go heap, outside of any Set (see "Value boxes on the heap").
    heap,           \* the arrays allocated so far, in the order of allocation
    caller,         \* the slice header of the caller's default sequence
    box,            \* the value box: its kind, *Value (a slice header or a number), written
    boxPc,          \* "new" (no box yet), "built", "panicked"
    boxOp,          \* the last operation on the box or on the caller's sequence
    nBoxOps,
    \* The struct Set before and after init (see "The zero Set").
    zborn,          \* how the Set came to be: "none" (not yet), "zero" (var set Set), "new"
                    \* (NewSet), with the name and the policy it was given
    zset,           \* the fields fs and provideMap, each of which can be nil
    zlog            \* the public operations called on the Set, with what they returned

setVars == <<formal, kind, defValue, value, written, actual, provideMap, parsed,
             errorHandling, pc, nArgs, nPasses, passLog, hist, ret, exitCode, nParses, nSets,
             fed>>
boxVars == <<heap, caller, box, boxPc, boxOp, nBoxOps>>
zeroVars == <<zborn, zset, zlog>>

vars == <<setVars, boxVars, zeroVars>>

\* The mutable part of a Set that Set.Set and the walks thread through.
Cur == [value |-> value, written |-> written, actual |-> actual, provideMap |-> provideMap,
        fed |-> fed]

(***************************************************************************)
(* Value boxes.                                                            *)
(***************************************************************************)
\* strconv.ParseInt on the raw strings of the model.
Digits == <<"1", "2", "3", "4", "5">>

parseInt(s) ==
    IF \E i \in DOMAIN Digits : Digits[i] = s
    THEN [v |-> CHOOSE i \in DOMAIN Digits : Digits[i] = s, err |-> nil]
    ELSE [v |-> 0, err |-> <<"strconv.ParseInt: invalid syntax">>]

\* The closure set(parse) returns, after parse returned r: assign only when
\* parse succeeded.
assign(v, w, r) ==
    IF r.err # nil THEN [value |-> v, written |-> w, err |-> r.err]
    ELSE [value |-> r.v, written |-> w, err |-> nil]

\* value[T].Set through set(parse).
valueSet(v, w, s) == assign(v, w, parseInt(s))

\* The end of slice[T,S].Set, after Parse returned r: append when it succeeded.
append(v1, r) ==
    IF r.err # nil THEN [value |-> v1, written |-> TRUE, err |-> r.err]
    ELSE [value |-> Append(v1, r.v), written |-> TRUE, err |-> nil]

\* A slice[T,S].Set that never truncates: it appends to the default.
sliceSet_Appends(v, w, s) == append(v, parseInt(s))

\* slice[T,S].Set: the first call truncates, then parse, then append.
sliceSet(v, w, s) == append(IF ~w THEN <<>> ELSE v, parseInt(s))

\* parseString: every string is accepted as it is.
parseString(s) == [v |-> s, err |-> nil]

\* What the parse function of the flag's value box makes of the string.
parsedBy(k, s) == IF k = "string" THEN parseString(s) ELSE parseInt(s)

\* flag.Value.Set dispatched on the value box of the flag.
flagValueSet(S, name, s) ==
    IF kind[name] = "slice" THEN sliceSet(S.value[name], S.written[name], s)
    ELSE IF kind[name] = "string"
    THEN assign(S.value[name], S.written[name], parseString(s))
    ELSE valueSet(S.value[name], S.written[name], s)

(***************************************************************************)
(* The flag set: FlagSet.Set of the standard library and Set.Set.          *)
(***************************************************************************)
Put(m, k, v) == [x \in DOMAIN m \cup {k} |-> IF x = k THEN v ELSE m[x]]

\* What the flag's value box did (r) is the state of the flag, and the flag
\* enters fs.actual when the box accepted the string.
stored(S, name, r) ==
    [S |-> [S EXCEPT !.value[name] = r.value,
                     !.written[name] = r.written,
                     !.actual = IF r.err = nil THEN @ \cup {name} ELSE @],
     err |-> r.err]

\* A successful Set call on a flag is noted with the value it parsed.
noted(r, name, s) ==
    IF r.err = nil
    THEN [r EXCEPT !.S.fed[name] = Append(@, parsedBy(kind[name], s).v)]
    ELSE r

\* set.fs.Set(name, value): look the flag up, feed the string to its value
\* box, and record the flag in fs.actual when the box accepted it.
fsSet(S, name, s) ==
    IF name \notin formal THEN [S |-> S, err |-> <<"no such flag", name>>]
    ELSE noted(stored(S, name, flagValueSet(S, name, s)), name, s)

\* The end of Set.Set, after set.fs.Set returned r: the source is recorded
\* when it returned nil.
provide(r, src, name) ==
    IF r.err # nil THEN r
    ELSE [r EXCEPT !.S.provideMap = Put(@, name, src)]

\* A Set.Set that records the source whether or not the flag accepted the value.
provide_Always(r, src, name) == [r EXCEPT !.S.provideMap = Put(@, name, src)]

Set_TagsAlways(S, src, name, s) == provide_Always(fsSet(S, name, s), src, name)

\* Set.Set(src, name, value).
Set(S, src, name, s) == provide(fsSet(S, name, s), src, name)

(***************************************************************************)
(* Walks.  A walk threads W = [S, seen]: the Set and the names the         *)
(* caller's callback was invoked on.  Callbacks are data:                  *)
(*   [kind |-> "seen"]                record the name, return nil          *)
(*   [kind |-> "sentinel", failAt]    record the name, return sentinel at  *)
(*                                    failAt ("*": at every flag)          *)
(*   [kind |-> "env", prefix, data, file, envFile]                         *)
(*                                    the callback of env.Parse            *)
(*   [kind |-> "file", tree]          the callback of file.Parse           *)
(*   [kind |-> "remaining", visited, fn]  the filter of VisitRemaining     *)
(*   [kind |-> "setting", at, target, raw]                                 *)
(*                                    record the name, marked when the flag *)
(*                                    is set at that moment; at the flag at *)
(*                                    call Set.Set on the flag target       *)
(***************************************************************************)
\* sortFlags of the standard library: the flags of a map, by name.
sortFlags(flags) == SelectSeq(NameOrder, LAMBDA n : n \in flags)

Range(q) == {q[i] : i \in DOMAIN q}

\* The source label env.Parse builds from the mapped variable name.
envSource(prefix, name) == <<"env", prefix, name>>

\* An env.Parse that tags what it takes from the dotenv file like what it
\* takes from the lookup function.
envFileSource_AsEnv(path, prefix, name) == envSource(prefix, name)

\* The source label env.Parse builds for a name the lookup function does not
\* have, when a dotenv file is configured.
envFileSource(path, prefix, name) == <<"envfile", path, prefix, name>>

\* The source label file.Parse hands to Set.Set.
fileSource == <<"file TODO">>

(***************************************************************************)
(* The values a decoder hands to file.Parse: a tree of nodes.  A node is   *)
(* a number, a string, a boolean, a list of nodes or an object; "missing"  *)
(* stands for a key the file does not have (or has with null).             *)
(***************************************************************************)
Node(t, n, s, elems) == [t |-> t, n |-> n, s |-> s, elems |-> elems]
Missing == Node("missing", 0, "", <<>>)
IntNode(n) == Node("int", n, "", <<>>)
StringNode(s) == Node("string", 0, s, <<>>)
BoolNode(b) == Node("bool", IF b THEN 1 ELSE 0, "", <<>>)
ListNode(elems) == Node("list", 0, "", elems)
ObjectNode == Node("object", 0, "", <<>>)

\* strconv.FormatInt, base 10, on the numbers of the model.
FormatInt(n) == Digits[n]

\* strconv.FormatBool.
FormatBool(n) == IF n = 1 THEN "true" ELSE "false"

\* The error of stringify on a kind it has no case for.
unsupported == <<"unsupported type">>

\* ErrVal{Key, Err}.
ErrVal(key, err) == <<"file: invalid value for path", key>> \o err

\* find(values, key) for a key of one segment: the node, and whether there is one.
find(tree, key) == [v |-> tree[key], ok |-> tree[key].t # "missing"]

\* A stringify that passes over a value of a kind it has no case for.
RECURSIVE stringify_Skips(_, _)
stringify_Skips(v, r) ==
    IF r.err # nil THEN r
    ELSE CASE v.t = "int" -> [r EXCEPT !.values = Append(@, FormatInt(v.n))]
           [] v.t = "bool" -> [r EXCEPT !.values = Append(@, FormatBool(v.n))]
           [] v.t = "string" -> [r EXCEPT !.values = Append(@, v.s)]
           [] v.t = "list" ->
                 IF v.elems = <<>> THEN r
                 ELSE stringify_Skips(ListNode(Tail(v.elems)),
                                      stringify_Skips(Head(v.elems), r))
           [] OTHER -> r

\* stringify(v, &values), r = [values, err] being what it has so far: one
\* string per scalar, the elements of a list in order, and an error at the
\* first value of another kind.
RECURSIVE stringify(_, _)
stringify(v, r) ==
    IF r.err # nil THEN r
    ELSE CASE v.t = "int" -> [r EXCEPT !.values = Append(@, FormatInt(v.n))]
           [] v.t = "bool" -> [r EXCEPT !.values = Append(@, FormatBool(v.n))]
           [] v.t = "string" -> [r EXCEPT !.values = Append(@, v.s)]
           [] v.t = "list" ->
                 IF v.elems = <<>> THEN r
                 ELSE stringify(ListNode(Tail(v.elems)), stringify(Head(v.elems), r))
           [] OTHER -> [r EXCEPT !.err = unsupported]

\* The loop of file.Parse over the values of a key: Set once per value and
\* return the first error as it is.
RECURSIVE fileSetEach(_, _, _)
RECURSIVE fileSetNext(_, _, _)
fileSetEach(S, name, vals) ==
    IF vals = <<>> THEN [S |-> S, err |-> nil]
    ELSE fileSetNext(Set(S, fileSource, name, Head(vals)), name, Tail(vals))

fileSetNext(r, name, rest) ==
    IF r.err # nil THEN r ELSE fileSetEach(r.S, name, rest)

\* The loop of env.Parse over the (split) value: Set once per element and
\* return the first error, wrapped.  envSetNext is the loop body after Set
\* returned r.
RECURSIVE envSetEach(_, _, _, _)
RECURSIVE envSetNext(_, _, _, _)
envSetEach(S, src, name, vals) ==
    IF vals = <<>> THEN [S |-> S, err |-> nil]
    ELSE envSetNext(Set(S, src, name, Head(vals)), src, name, Tail(vals))

envSetNext(r, src, name, rest) ==
    IF r.err # nil THEN [r EXCEPT !.err = <<"env">> \o @]
    ELSE envSetEach(r.S, src, name, rest)

\* How a callback records a flag that is set at the moment it is handed it.
AlreadySet == [a |-> "a (set)", b |-> "b (set)", c |-> "c (set)"]

\* The source label of a callback that calls Set.Set while it walks.
walkSource == <<"walk">>

\* What a callback that looks at fs.actual records for the flag name.
observed(S, name) == IF name \in S.actual THEN AlreadySet[name] ELSE name

\* A callback saw the flag name, and what it did (r) is the state of the Set.
sawAndDid(W, name, r) ==
    [W |-> [W EXCEPT !.seen = Append(@, name), !.S = r.S], err |-> r.err]

\* The callback of file.Parse after stringify returned sv = [values, err].
fileStringified(W, name, sv) ==
    IF sv.err # nil
    THEN [W |-> [W EXCEPT !.seen = Append(@, name)], err |-> ErrVal(name, sv.err)]
    ELSE sawAndDid(W, name, fileSetEach(W.S, name, sv.values))

RECURSIVE call(_, _, _)
call(cb, W, name) ==
    CASE cb.kind = "remaining" ->
            IF name \in cb.visited THEN [W |-> W, err |-> nil]
            ELSE call(cb.fn, W, name)
      [] cb.kind = "seen" ->
            [W |-> [W EXCEPT !.seen = Append(@, name)], err |-> nil]
      [] cb.kind = "sentinel" ->
            [W |-> [W EXCEPT !.seen = Append(@, name)],
             err |-> IF cb.failAt \in {name, "*"} THEN sentinel ELSE nil]
      [] cb.kind = "env" ->
            LET ok == cb.data[name] # <<>>
                val == IF ok THEN cb.data[name] ELSE cb.file[name]
                src == IF ok \/ cb.envFile = "none" THEN envSource(cb.prefix, name)
                       ELSE envFileSource(cb.envFile, cb.prefix, name)
            IN IF val = <<>>
               THEN [W |-> [W EXCEPT !.seen = Append(@, name)], err |-> nil]
               ELSE sawAndDid(W, name, envSetEach(W.S, src, name, val))
      [] cb.kind = "setting" ->
            IF name = cb.at
            THEN [W |-> [W EXCEPT !.seen = Append(@, observed(W.S, name)),
                                  !.S = Set(W.S, walkSource, cb.target, cb.raw).S],
                  err |-> nil]
            ELSE [W |-> [W EXCEPT !.seen = Append(@, observed(W.S, name))], err |-> nil]
      [] cb.kind = "file" ->
            IF ~find(cb.tree, name).ok
            THEN [W |-> [W EXCEPT !.seen = Append(@, name)], err |-> nil]
            ELSE fileStringified(W, name,
                                 stringify(find(cb.tree, name).v, [values |-> <<>>, err |-> nil]))

\* The first error of a walk is the one it returns.
firstErr(visitErr, r) == IF visitErr # nil THEN [r EXCEPT !.err = visitErr] ELSE r

\* A walk that keeps invoking the callback after it returned an error.
RECURSIVE walk_NoStop(_, _, _)
walk_NoStop(flags, cb, r) ==
    IF flags = <<>> THEN r
    ELSE walk_NoStop(Tail(flags), cb, firstErr(r.err, call(cb, r.W, Head(flags))))

\* The closure Set.VisitAll and Set.Visit hand to the standard library, over
\* the flags in order; r = [W, err] holds visitErr: once it is set, the
\* remaining flags are passed over.
RECURSIVE walk(_, _, _)
walk(flags, cb, r) ==
    IF flags = <<>> THEN r
    ELSE IF r.err # nil THEN walk(Tail(flags), cb, r)
    ELSE walk(Tail(flags), cb, call(cb, r.W, Head(flags)))

VisitAll(cb, W) == walk(sortFlags(formal), cb, [W |-> W, err |-> nil])

\* A Visit that walks every declared flag.
Visit_Formal(cb, W) == walk(sortFlags(formal), cb, [W |-> W, err |-> nil])

\* A Visit that walks no flag.
Visit_None(cb, W) == walk(<<>>, cb, [W |-> W, err |-> nil])

Visit(cb, W) == walk(sortFlags(W.S.actual), cb, [W |-> W, err |-> nil])

\* A VisitRemaining that does not filter out the flags that are set.
VisitRemaining_NoFilter(fn, W) == VisitAll(fn, W)

VisitRemaining(fn, W) ==
    LET visited == Range(Visit([kind |-> "seen"], [W EXCEPT !.seen = <<>>]).W.seen) IN
    VisitAll([kind |-> "remaining", visited |-> visited, fn |-> fn], W)

(***************************************************************************)
(* The primary argument parse (FlagSet.Parse of the standard library).     *)
(* An argument list is a sequence of occurrences "-name=raw"; the name     *)
(* "h" is never declared and stands for a help request.                    *)
(***************************************************************************)
Args == [name : Names, raw : RawVals] \cup {[name |-> "h", raw |-> "1"]}

\* A primary parse that goes on to the next argument whatever the policy.
fsParseFailed_Swallow(eh) == "next"

\* What the switch on the error handling policy does with an error.
fsParseFailed(eh) ==
    CASE eh = ContinueOnError -> "return"
      [] eh = ExitOnError -> "exit"
      [] eh = PanicOnError -> "panic"
      [] OTHER -> "next"

\* The error of a value the flag rejects, as parseOne reports it.
failf(r, arg) ==
    IF r.err = nil THEN r
    ELSE [r EXCEPT !.err = <<"invalid value", arg.raw, arg.name>> \o @]

\* parseOne: an unknown name fails (ErrHelp for -h/-help), a value the flag's
\* value box rejects fails, otherwise the flag enters fs.actual.
parseOne(S, arg) ==
    IF arg.name \notin formal THEN
        IF arg.name \in {"help", "h"} THEN [S |-> S, err |-> ErrHelp]
        ELSE [S |-> S, err |-> <<"flag provided but not defined", arg.name>>]
    ELSE failf(noted(stored(S, arg.name, flagValueSet(S, arg.name, arg.raw)), arg.name, arg.raw),
               arg)

(***************************************************************************)
(* Set.Parse: the stamping of the provenance map and the extra parsers.    *)
(***************************************************************************)
\* A stamping that tags every declared flag "default" and nothing "flags".
stamp_NoFlags(S) ==
    [S EXCEPT !.provideMap = [n \in DOMAIN S.provideMap \cup formal |->
                   IF n \in formal THEN SourceDefaultVal ELSE S.provideMap[n]]]

\* Every declared flag is tagged "default", then every flag of fs.actual "flags".
stamp(S) ==
    LET all == [n \in DOMAIN S.provideMap \cup formal |->
                   IF n \in formal THEN SourceDefaultVal ELSE S.provideMap[n]]
    IN [S EXCEPT !.provideMap = [n \in DOMAIN all |->
                   IF n \in S.actual THEN SourceFlags ELSE all[n]]]

\* A Set.Parse that goes on to the next extra parser whatever the policy.
parserFailed_Swallow(eh) == "next"

\* The switch of Set.Parse on the policy when an extra parser returned an error.
parserFailed(eh) ==
    CASE eh = ContinueOnError -> "return"
      [] eh = ExitOnError -> "exit"
      [] eh = PanicOnError -> "panic"
      [] OTHER -> "next"

(***************************************************************************)
(* Extra parsers.                                                          *)
(*   "env": env.Parse with a lookup function holding data[name] (the value *)
(*     after splitting; <<>>: not found) and, when envFile is not "none",  *)
(*     WithDotEnv(envFile) whose file holds file[name].                    *)
(*   "file": file.Parse(path, mux, ...) on a file that exists or not, with *)
(*     or without IgnoreMissingFile; tree[name] is what the decoded file   *)
(*     holds for the key of the flag.                                      *)
(*   The path of the file, or of the dotenv file, is a string the parser   *)
(*   is built with (path) or the value of a flag (pathFlag); "-": the file *)
(*   is described by the fields exists, tree, file of the parser itself.   *)
(*   "faulty": a parser whose VisitRemaining callback returns a sentinel.  *)
(*   "help": a parser that returns ErrHelp.                                *)
(***************************************************************************)
NoData == [n \in Names |-> <<>>]

\* The options a parser is built with when nothing is said.
NoTree == [n \in Names |-> Missing]

NoParser == [id |-> "-", kind |-> "-", data |-> NoData, file |-> NoData, envFile |-> "none",
             exists |-> TRUE, ignoreMissing |-> FALSE, tree |-> NoTree,
             path |-> "-", pathFlag |-> "-"]

Parsers == {
    [NoParser EXCEPT !.id = "p1", !.kind = "env",
                     !.data = [NoData EXCEPT !["a"] = <<"2">>, !["c"] = <<"2", "2">>]],
    [NoParser EXCEPT !.id = "p2", !.kind = "env", !.envFile = ".env",
                     !.data = [NoData EXCEPT !["a"] = <<"3">>],
                     !.file = [NoData EXCEPT !["a"] = <<"5">>, !["b"] = <<"5">>]],
    [NoParser EXCEPT !.id = "px", !.kind = "env",
                     !.data = [NoData EXCEPT !["a"] = <<"4">>, !["b"] = <<"x">>,
                                             !["c"] = <<"4", "x">>]],
    [NoParser EXCEPT !.id = "pf", !.kind = "faulty"],
    [NoParser EXCEPT !.id = "ph", !.kind = "help"],
    [NoParser EXCEPT !.id = "pm", !.kind = "file", !.exists = FALSE],
    [NoParser EXCEPT !.id = "pi", !.kind = "file", !.exists = FALSE, !.ignoreMissing = TRUE] }

\* What an extra parser leaves: the Set, its error, and the flags it saw.
passed(r) == [S |-> r.W.S, err |-> r.err, seen |-> r.W.seen]

\* The callback an extra parser hands to VisitRemaining.
callback(p) ==
    CASE p.kind = "env" -> [kind |-> "env", prefix |-> p.id, data |-> p.data,
                            file |-> p.file, envFile |-> p.envFile]
      [] p.kind = "file" -> [kind |-> "file", tree |-> p.tree]
      [] OTHER -> [kind |-> "sentinel", failAt |-> "*"]

\* What a parser does before it walks the flags: file.Parse opens its file;
\* "walk": it goes on to VisitRemaining.
opened(p) ==
    CASE p.kind = "help" -> ErrHelp
      [] p.kind = "file" /\ ~p.exists ->
            IF p.ignoreMissing THEN nil ELSE <<"file">> \o ErrNotExist
      [] p.kind = "env" /\ p.envFile # "none" /\ ~p.exists /\ ~p.ignoreMissing ->
            <<"env: unable to parse env file", p.envFile>> \o ErrNotExist
      [] OTHER -> <<"walk">>

\* The files of the test data: whether the path exists, what a decoder makes
\* of the file, and what the dotenv parser makes of it.
Paths == {"d", "1", "2", "x"}

Files == [path \in Paths |->
    CASE path = "d" ->
            [exists |-> TRUE,
             tree |-> [NoTree EXCEPT !["a"] = StringNode("2"), !["b"] = IntNode(3),
                                     !["c"] = ListNode(<<IntNode(4), StringNode("5")>>)],
             env |-> [NoData EXCEPT !["b"] = <<"3">>]]
      [] path = "1" ->
            [exists |-> TRUE,
             tree |-> [NoTree EXCEPT !["b"] = IntNode(1),
                                     !["c"] = ListNode(<<IntNode(1), ObjectNode>>)],
             env |-> [NoData EXCEPT !["b"] = <<"1">>]]
      [] path = "2" ->
            [exists |-> TRUE,
             tree |-> [NoTree EXCEPT !["b"] = ObjectNode, !["c"] = ListNode(<<IntNode(2)>>)],
             env |-> [NoData EXCEPT !["b"] = <<"2">>, !["c"] = <<"2", "2">>]]
      [] OTHER -> [exists |-> FALSE, tree |-> NoTree, env |-> NoData]]

\* The path a parser built at the start of the Parse call would have read.
pathOf_AtBuild(p, S) ==
    IF p.pathFlag # "-" THEN hist.atCall.value[p.pathFlag] ELSE p.path

\* *path, read when the parser runs: the value of the flag the pointer
\* points into, or the string the parser was built with.
pathOf(p, S) ==
    IF p.pathFlag # "-" THEN S.value[p.pathFlag] ELSE p.path

\* The parser as it finds the file at the path.
found(p, path) ==
    IF path = "-" THEN p
    ELSE IF p.kind = "env"
    THEN [p EXCEPT !.envFile = path, !.exists = Files[path].exists, !.file = Files[path].env]
    ELSE [p EXCEPT !.exists = Files[path].exists, !.tree = Files[path].tree]

\* The body of a parser once the file it names is known.
ran(q, S) ==
    IF opened(q) = <<"walk">>
    THEN passed(VisitRemaining(callback(q), [S |-> S, seen |-> <<>>]))
    ELSE [S |-> S, err |-> opened(q), seen |-> <<>>]

\* What a parser leaves (r), with the path it opened.
opening(r, path) == [S |-> r.S, err |-> r.err, seen |-> r.seen, opens |-> path]

runParser(p, S) == opening(ran(found(p, pathOf(p, S)), S), pathOf(p, S))

(***************************************************************************)
(* State machine.                                                          *)
(***************************************************************************)
EmptyMap == [n \in {} |-> nil]

NoS == [value |-> EmptyMap, written |-> EmptyMap, actual |-> {}, provideMap |-> EmptyMap,
        fed |-> EmptyMap]

\* Observations of a Parse call: the flags its primary parse consumed, the
\* error of the primary parse, the Set when Parse was called, when the extra
\* parsers start, and when the latest extra parser that returned nil returned.
NoHist == [cli |-> {}, primErr |-> nil, atCall |-> NoS, atStart |-> NoS, lastGood |-> NoS]

NoRet == [op |-> "none", err |-> nil, seen |-> <<>>, arg |-> "-"]

Ret(op, err, seen, arg) == [op |-> op, err |-> err, seen |-> seen, arg |-> arg]

\* The flags a program declares: Add(&set, name, Int(0), "") for a and b,
\* Add(&set, "c", Ints(0), "").
Decls == {[name |-> "a", kind |-> "value", def |-> 0],
          [name |-> "b", kind |-> "value", def |-> 0],
          [name |-> "c", kind |-> "slice", def |-> <<0>>]}

\* The source labels a caller hands to Set.Set outside of Parse.
SetSources == {<<"manual">>}

(***************************************************************************)
(* Value boxes on the heap: the constructors Slice, MustSlice and MustVar   *)
(* and slice[T,S].Set with Go's slices, a header [arr, len] over an array   *)
(* whose length is the capacity.                                            *)
(***************************************************************************)
MaxDefaults == 3  \* elements of a default sequence
MaxBoxOps == 3    \* Set calls on one box and writes to the caller's sequence

\* The elements a caller puts in a default sequence, and the one it writes later.
DefaultElems == {0, 7}
LaterElem == 9

\* The strings a caller hands to MustVar and MustSlice.
DefaultStrings == {"1", "2", "x"}

\* The sequences over S of at most n elements.
SeqsUpTo(S, n) == UNION {[1..k -> S] : k \in 0..n}

NoSlice == [arr |-> 0, len |-> 0]
NoBox == [kind |-> "none", Value |-> NoSlice, written |-> FALSE]
NoBoxOp == [op |-> "none", arg |-> <<>>, err |-> nil, calls |-> 0]

\* The elements a slice header shows.
View(h, hdr) == IF hdr.arr = 0 THEN <<>> ELSE SubSeq(h[hdr.arr], 1, hdr.len)

\* n zero values.
zeros(n) == [i \in 1..n |-> 0]

\* The capacity Go's append gives the array it allocates for a full slice.
grow(cap) == IF cap = 0 THEN 1 ELSE 2 * cap

\* Go's append(s, v): in place while the array has room, else into a new array.
goAppend(h, hdr, v) ==
    IF hdr.len < Len(h[hdr.arr])
    THEN [heap |-> [h EXCEPT ![hdr.arr][hdr.len + 1] = v],
          hdr |-> [hdr EXCEPT !.len = @ + 1]]
    ELSE [heap |-> Append(h, View(h, hdr) \o <<v>> \o zeros(grow(hdr.len) - hdr.len - 1)),
          hdr |-> [arr |-> Len(h) + 1, len |-> hdr.len + 1]]

\* A Slice that keeps the caller's sequence as its storage.
Slice_NoCopy(h, defaultValue) ==
    [heap |-> h,
     box |-> [kind |-> "slice", Value |-> defaultValue, written |-> FALSE]]

\* Slice(defaultValue, parse): vcopy := make(S, len(defaultValue)); copy.
Slice(h, defaultValue) ==
    [heap |-> Append(h, View(h, defaultValue)),
     box |-> [kind |-> "slice",
              Value |-> [arr |-> Len(h) + 1, len |-> defaultValue.len],
              written |-> FALSE]]

\* The end of slice[T,S].Set on the heap, after Parse returned r.
appended(h, hdr, r) ==
    IF r.err # nil
    THEN [heap |-> h, box |-> [kind |-> "slice", Value |-> hdr, written |-> TRUE],
          err |-> r.err]
    ELSE [heap |-> goAppend(h, hdr, r.v).heap,
          box |-> [kind |-> "slice", Value |-> goAppend(h, hdr, r.v).hdr, written |-> TRUE],
          err |-> nil]

\* slice[T,S].Set on the heap: (*f.Value)[:0] on the first call, parse, append.
heapSliceSet(h, b, s) ==
    appended(h, IF ~b.written THEN [b.Value EXCEPT !.len = 0] ELSE b.Value, parseInt(s))

\* value[T].Set of a box outside of a Set.
heapValueSet(h, b, s) ==
    [heap |-> h,
     box |-> [b EXCEPT !.Value = valueSet(b.Value, FALSE, s).value],
     err |-> valueSet(b.Value, FALSE, s).err]

RECURSIVE mustSliceFrom(_, _, _)

\* A MustSlice that parses every default before it panics with the first error.
mustSliceNext_ParsesAll(defaults, i, vcopy, r) ==
    IF r.err # nil
    THEN [mustSliceFrom(defaults, i + 1, vcopy)
            EXCEPT !.err = <<"flag: invalid default value", defaults[i]>> \o r.err]
    ELSE mustSliceFrom(defaults, i + 1, [vcopy EXCEPT ![i] = r.v])

\* One turn of the loop of MustSlice, after parse(def) returned r: panic, or
\* vcopy[i] = v and on to the next default.
mustSliceNext(defaults, i, vcopy, r) ==
    IF r.err # nil
    THEN [vcopy |-> vcopy, calls |-> i,
          err |-> <<"flag: invalid default value", defaults[i]>> \o r.err]
    ELSE mustSliceFrom(defaults, i + 1, [vcopy EXCEPT ![i] = r.v])

\* The loop of MustSlice from the i-th default on: what vcopy holds, the
\* number of calls of parse, the error it panics with.
mustSliceFrom(defaults, i, vcopy) ==
    IF i > Len(defaults) THEN [vcopy |-> vcopy, calls |-> i - 1, err |-> nil]
    ELSE mustSliceNext(defaults, i, vcopy, parseInt(defaults[i]))

\* MustSlice(defaults, parse): vcopy := make([]T, len(defaults)), the loop.
MustSlice(defaults) == mustSliceFrom(defaults, 1, zeros(Len(defaults)))

\* MustVar(defaultValue, setter): v := new(T); setter(v, defaultValue).
MustVar(defaultValue) == valueSet(0, FALSE, defaultValue)

\* No box has been built.
NoBoxYet ==
    /\ heap = <<>>
    /\ caller = NoSlice
    /\ box = NoBox
    /\ boxPc = "new"
    /\ boxOp = NoBoxOp
    /\ nBoxOps = 0

(***************************************************************************)
(* The zero Set: the struct Set with its two fields, and init.              *)
(***************************************************************************)
MaxZeroOps == 3   \* public operations called on one Set

\* A nil *stdflag.FlagSet, and &stdflag.FlagSet{}: no name, ContinueOnError,
\* no usage function, no flags.
NilFlagSet == [made |-> FALSE, name |-> "", errorHandling |-> ContinueOnError,
               usage |-> "nil", formal |-> {}]
ZeroFlagSet == [NilFlagSet EXCEPT !.made = TRUE]

\* A nil map[string]Source, and make(map[string]Source).
NilMap == [made |-> FALSE, m |-> << >>]
MadeMap == [made |-> TRUE, m |-> << >>]

\* var set flagr.Set
ZeroSet == [fs |-> NilFlagSet, provideMap |-> NilMap]

\* NewSet(name, errorHandling): stdflag.NewFlagSet sets its own usage function.
NewSet(name, eh) ==
    [fs |-> [ZeroFlagSet EXCEPT !.name = name, !.errorHandling = eh, !.usage = "std"],
     provideMap |-> NilMap]

\* An init that makes everything anew.
init_Anew(Z) == [fs |-> [ZeroFlagSet EXCEPT !.usage = "default"], provideMap |-> MadeMap]

\* init: if set.fs == nil { set.fs = &stdflag.FlagSet{} }
withFs(Z) == IF ~Z.fs.made THEN [Z EXCEPT !.fs = ZeroFlagSet] ELSE Z

\* init: if set.provideMap == nil { set.provideMap = make(map[string]Source) }
withMap(Z) == IF ~Z.provideMap.made THEN [Z EXCEPT !.provideMap = MadeMap] ELSE Z

\* init: if set.fs.Usage == nil { set.fs.Usage = func() {...} }
withUsage(Z) == IF Z.fs.usage = "nil" THEN [Z EXCEPT !.fs.usage = "default"] ELSE Z

\* (set *Set) init()
init(Z) == withUsage(withMap(withFs(Z)))

\* The names, policies, usage functions and source labels of the calls.
SetNames == {"", "x"}
UsageFuncs == {"custom1", "custom2"}
ZeroFlags == {"a", "b"}

\* No Set has been made.
NoSetYet ==
    /\ zborn = [how |-> "none", name |-> "", eh |-> ContinueOnError]
    /\ zset = ZeroSet
    /\ zlog = <<>>

Init ==
    /\ formal = {}
    /\ kind = EmptyMap
    /\ defValue = EmptyMap
    /\ value = EmptyMap
    /\ written = EmptyMap
    /\ actual = {}
    /\ provideMap = EmptyMap
    /\ parsed = FALSE
    /\ errorHandling \in ErrorHandlings
    /\ pc = "idle"
    /\ nArgs = 0
    /\ nPasses = 0
    /\ passLog = <<>>
    /\ hist = NoHist
    /\ ret = NoRet
    /\ exitCode = -1
    /\ nParses = 0
    /\ nSets = 0
    /\ fed = EmptyMap
    /\ NoBoxYet
    /\ NoSetYet

Commit(S) ==
    /\ value' = S.value
    /\ written' = S.written
    /\ actual' = S.actual
    /\ provideMap' = S.provideMap
    /\ fed' = S.fed

\* Where control goes after an error, by what the policy switch decided.
Goto(after) ==
    CASE after = "return" -> "returned"
      [] after = "exit" -> "exited"
      [] after = "panic" -> "panicked"

\* fs.Var enters the flag and its value box in fs.formal.
Registered(d) ==
    /\ formal' = formal \cup {d.name}
    /\ kind' = Put(kind, d.name, d.kind)
    /\ defValue' = Put(defValue, d.name, d.def)
    /\ value' = Put(value, d.name, d.def)
    /\ written' = Put(written, d.name, FALSE)
    /\ fed' = Put(fed, d.name, <<>>)

\* An Add that panics on a name already declared after it replaced the flag.
Add_Replaces(d) ==
    /\ pc = "idle"
    /\ pc' = IF d.name \in formal THEN "panicked" ELSE "returned"
    /\ ret' = IF d.name \in formal
              THEN Ret("Add", <<"flag redefined", d.name>>, <<>>, d.name)
              ELSE Ret("Add", nil, <<>>, d.name)
    /\ Registered(d)
    /\ UNCHANGED <<actual, provideMap, parsed, errorHandling, nArgs, nPasses, passLog,
                   hist, exitCode, nParses, nSets>>
    /\ UNCHANGED <<boxVars, zeroVars>>

\* Add(set, name, value, usage): fs.Var panics on a name already declared.
Add(d) ==
    /\ pc = "idle"
    /\ IF d.name \in formal
       THEN /\ pc' = "panicked"
            /\ ret' = Ret("Add", <<"flag redefined", d.name>>, <<>>, d.name)
            /\ UNCHANGED <<formal, kind, defValue, value, written, fed>>
       ELSE /\ pc' = "returned"
            /\ ret' = Ret("Add", nil, <<>>, d.name)
            /\ Registered(d)
    /\ UNCHANGED <<actual, provideMap, parsed, errorHandling, nArgs, nPasses, passLog,
                   hist, exitCode, nParses, nSets>>
    /\ UNCHANGED <<boxVars, zeroVars>>

\* An operation returns r = [S, err]: the Set it leaves and its error.
Returns(op, r, arg) ==
    /\ Commit(r.S)
    /\ ret' = Ret(op, r.err, <<>>, arg)
    /\ pc' = "returned"

\* A walk called by the program returns r = [W, err].
WalkReturns(op, r, failAt) ==
    /\ ret' = Ret(op, r.err, r.W.seen, failAt)
    /\ pc' = "returned"

\* A call of Set.Set by the program, outside of Parse.
SetCallUpTo(n, src, name, s) ==
    /\ pc = "idle"
    /\ nSets < n
    /\ Returns("Set", Set(Cur, src, name, s), name)
    /\ nSets' = nSets + 1
    /\ hist' = [hist EXCEPT !.atCall = Cur]
    /\ UNCHANGED <<formal, kind, defValue, parsed, errorHandling, nArgs, nPasses, passLog,
                   exitCode, nParses>>
    /\ UNCHANGED <<boxVars, zeroVars>>

\* A call of Set.Set, as long as the program has made fewer than MaxSets of them.
SetCall(src, name, s) ==
    /\ nSets < MaxSets
    /\ SetCallUpTo(MaxSets, src, name, s)

\* A call of VisitAll, Visit or VisitRemaining by the program, with a
\* callback that records the name and fails at failAt ("-": never).
VisitCall(op, failAt) ==
    /\ pc = "idle"
    /\ LET cb == [kind |-> "sentinel", failAt |-> failAt]
           W == [S |-> Cur, seen |-> <<>>]
       IN WalkReturns(op,
                      CASE op = "VisitAll" -> VisitAll(cb, W)
                        [] op = "Visit" -> Visit(cb, W)
                        [] op = "VisitRemaining" -> VisitRemaining(cb, W),
                      failAt)
    /\ UNCHANGED <<formal, kind, defValue, value, written, actual, provideMap, fed, parsed,
                   errorHandling, nArgs, nPasses, passLog, hist, exitCode, nParses, nSets>>
    /\ UNCHANGED <<boxVars, zeroVars>>

\* The program takes the result of the operation and goes on.
Resume ==
    /\ pc = "returned"
    /\ pc' = "idle"
    /\ ret' = NoRet
    /\ hist' = NoHist
    /\ passLog' = <<>>
    /\ nArgs' = 0
    /\ nPasses' = 0
    /\ UNCHANGED <<formal, kind, defValue, value, written, actual, provideMap, fed, parsed,
                   errorHandling, exitCode, nParses, nSets>>
    /\ UNCHANGED <<boxVars, zeroVars>>

\* A Parse call that makes every sequence flag forget that it was written.
ParseCall_Rewinds(n) ==
    /\ pc = "idle"
    /\ nParses < n
    /\ pc' = "args"
    /\ parsed' = TRUE
    /\ nParses' = nParses + 1
    /\ written' = [f \in DOMAIN written |-> FALSE]
    /\ hist' = [NoHist EXCEPT !.atCall = Cur]
    /\ UNCHANGED <<formal, kind, defValue, value, actual, provideMap, fed,
                   errorHandling, nArgs, nPasses, passLog, ret, exitCode, nSets>>
    /\ UNCHANGED <<boxVars, zeroVars>>

\* A Parse call that leaves fs.parsed as it is.
ParseCall_Unmarked ==
    /\ pc = "idle"
    /\ nParses < MaxParses
    /\ pc' = "args"
    /\ nParses' = nParses + 1
    /\ hist' = [NoHist EXCEPT !.atCall = Cur]
    /\ UNCHANGED <<formal, kind, defValue, value, written, actual, provideMap, fed, parsed,
                   errorHandling, nArgs, nPasses, passLog, ret, exitCode, nSets>>
    /\ UNCHANGED <<boxVars, zeroVars>>

\* Set.Parse(arguments, extraParsers...) is called: set.init(), then
\* fs.Parse marks the set parsed and starts on the arguments.
ParseCallUpTo(n) ==
    /\ pc = "idle"
    /\ nParses < n
    /\ pc' = "args"
    /\ parsed' = TRUE
    /\ nParses' = nParses + 1
    /\ hist' = [NoHist EXCEPT !.atCall = Cur]
    /\ UNCHANGED <<formal, kind, defValue, value, written, actual, provideMap, fed,
                   errorHandling, nArgs, nPasses, passLog, ret, exitCode, nSets>>
    /\ UNCHANGED <<boxVars, zeroVars>>

\* A Parse call, as long as the Set has had fewer than MaxParses of them.
ParseCall ==
    /\ nParses < MaxParses
    /\ ParseCallUpTo(MaxParses)

\* After parseOne returned r = [S, err]: the loop of fs.Parse goes on, or the
\* policy decides what becomes of the error.
ArgParsed(arg, r) ==
    LET after == IF r.err = nil THEN "next" ELSE fsParseFailed(errorHandling) IN
    /\ Commit(r.S)
    /\ pc' = IF after = "next" THEN "args" ELSE Goto(after)
    /\ exitCode' = IF after = "exit" THEN (IF r.err = ErrHelp THEN 0 ELSE 2) ELSE exitCode
    /\ ret' = IF after = "next" THEN ret ELSE Ret("Parse", r.err, <<>>, "-")
    /\ hist' = IF r.err = nil THEN [hist EXCEPT !.cli = @ \cup {arg.name}]
               ELSE IF hist.primErr # nil THEN hist
               ELSE [hist EXCEPT !.primErr = r.err]

\* One turn of the loop of fs.Parse: the next occurrence of the argument list.
ParseArg(arg) ==
    /\ pc = "args"
    /\ nArgs < MaxArgs
    /\ ArgParsed(arg, parseOne(Cur, arg))
    /\ nArgs' = nArgs + 1
    /\ UNCHANGED <<formal, kind, defValue, parsed, errorHandling, nPasses, passLog,
                   nParses, nSets>>
    /\ UNCHANGED <<boxVars, zeroVars>>

\* The Set as stamped is the Set the extra parsers start from.
Stamped(S2) ==
    /\ Commit(S2)
    /\ hist' = [hist EXCEPT !.atStart = S2, !.lastGood = S2]

\* The arguments are exhausted: fs.Parse returns nil, Set.Parse stamps the
\* provenance map and turns to its n extra parsers.
ParseStamp(n) ==
    /\ pc = "args"
    /\ Stamped(stamp(Cur))
    /\ pc' = "passes"
    /\ nPasses' = n
    /\ UNCHANGED <<formal, kind, defValue, parsed, errorHandling, nArgs, passLog, ret,
                   exitCode, nParses, nSets>>
    /\ UNCHANGED <<boxVars, zeroVars>>

\* After the extra parser p returned r = [S, err, seen]: the loop of Set.Parse
\* goes on, or the policy decides what becomes of the error.
ParserRan(p, r) ==
    LET after == IF r.err = nil THEN "next" ELSE parserFailed(errorHandling) IN
    /\ Commit(r.S)
    /\ passLog' = Append(passLog, [p |-> p, seen |-> r.seen, err |-> r.err,
                                    did |-> r.S.actual \ actual, opens |-> r.opens])
    /\ pc' = IF after = "next" THEN "passes" ELSE Goto(after)
    /\ exitCode' = IF after = "exit" THEN 2 ELSE exitCode
    /\ ret' = IF after = "next" THEN ret ELSE Ret("Parse", r.err, <<>>, "-")
    /\ hist' = IF r.err = nil THEN [hist EXCEPT !.lastGood = r.S] ELSE hist

\* One turn of the loop of Set.Parse over extraParsers.
RunParser(p) ==
    /\ pc = "passes"
    /\ Len(passLog) < nPasses
    /\ ParserRan(p, runParser(p, Cur))
    /\ UNCHANGED <<formal, kind, defValue, parsed, errorHandling, nArgs, nPasses,
                   nParses, nSets>>
    /\ UNCHANGED <<boxVars, zeroVars>>

\* Set.Parse returns nil after its last extra parser.
ParseReturn ==
    /\ pc = "passes"
    /\ Len(passLog) = nPasses
    /\ pc' = "returned"
    /\ ret' = Ret("Parse", nil, <<>>, "-")
    /\ UNCHANGED <<formal, kind, defValue, value, written, actual, provideMap, fed, parsed,
                   errorHandling, nArgs, nPasses, passLog, hist, exitCode, nParses, nSets>>
    /\ UNCHANGED <<boxVars, zeroVars>>

Next ==
    \/ \E d \in Decls : Add(d)
    \/ \E src \in SetSources, name \in Names, s \in RawVals : SetCall(src, name, s)
    \/ \E op \in {"VisitAll", "Visit", "VisitRemaining"}, failAt \in Names \cup {"-"} : VisitCall(op, failAt)
    \/ Resume
    \/ ParseCall
    \/ \E arg \in Args : ParseArg(arg)
    \/ \E n \in 0..MaxPasses : ParseStamp(n)
    \/ \E p \in Parsers : RunParser(p)
    \/ ParseReturn

Spec == Init /\ [][Next]_vars

(***************************************************************************)
(* The program that calls Parse again on the same Set, and Set.Set with     *)
(* labels of its choice, "default" among them.  Same operations, other      *)
(* inputs: fewer extra parsers, two accepted raw strings.                   *)
(***************************************************************************)
MaxAgainParses == 2   \* Parse calls on one Set
MaxAgainSets == 2     \* Set calls made outside of a Parse call
MaxAgainPasses == 1   \* extra parsers handed to one Parse call

ArgsAgain == [name : Names, raw : {"1", "2"}]
SetSourcesAgain == {<<"manual">>, SourceDefaultVal}
ParsersAgain == {p \in Parsers : p.id = "p1"}

InitAgain == Init /\ errorHandling = ContinueOnError

NextAgain ==
    \/ \E d \in Decls : Add(d)
    \/ \E src \in SetSourcesAgain, name \in Names, s \in RawVals :
          SetCallUpTo(MaxAgainSets, src, name, s)
    \/ \E op \in {"Visit", "VisitRemaining"} : VisitCall(op, "-")
    \/ Resume
    \/ ParseCallUpTo(MaxAgainParses)
    \/ \E arg \in ArgsAgain : ParseArg(arg)
    \/ \E n \in 0..MaxAgainPasses : ParseStamp(n)
    \/ \E p \in ParsersAgain : RunParser(p)
    \/ ParseReturn

SpecAgain == InitAgain /\ [][NextAgain]_vars

(***************************************************************************)
(* The program that walks the unset flags with a callback which calls       *)
(* Set.Set on a flag of its choice while the walk is at another one.        *)
(***************************************************************************)
MaxWalkSets == 2   \* Set calls, those made from inside a walk included

\* VisitRemaining with a callback that, at the flag at, sets the flag target.
VisitRemainingSetting(at, target, raw) ==
    /\ pc = "idle"
    /\ nSets < MaxWalkSets
    /\ target \in formal
    /\ LET r == VisitRemaining([kind |-> "setting", at |-> at, target |-> target, raw |-> raw],
                               [S |-> Cur, seen |-> <<>>])
       IN /\ Commit(r.W.S)
          /\ ret' = Ret("VisitRemaining setting", r.err, r.W.seen, at)
    /\ pc' = "returned"
    /\ nSets' = nSets + 1
    /\ hist' = [hist EXCEPT !.atCall = Cur]
    /\ UNCHANGED <<formal, kind, defValue, parsed, errorHandling, nArgs, nPasses, passLog,
                   exitCode, nParses>>
    /\ UNCHANGED <<boxVars, zeroVars>>

InitWalk == Init /\ errorHandling = ContinueOnError

NextWalk ==
    \/ \E d \in Decls : Add(d)
    \/ \E src \in SetSources, name \in Names, s \in RawVals :
          SetCallUpTo(MaxWalkSets, src, name, s)
    \/ \E at \in Names, target \in Names, raw \in RawVals : VisitRemainingSetting(at, target, raw)
    \/ Resume

SpecWalk == InitWalk /\ [][NextWalk]_vars

(***************************************************************************)
(* The program whose extra parsers read files: file.Parse on a path that   *)
(* is a string or the value of the flag a, and env.Parse with a dotenv     *)
(* file whose path is the value of the flag a.                             *)
(***************************************************************************)
MaxFilePasses == 2   \* extra parsers handed to the Parse call

DeclsFile == {[name |-> "a", kind |-> "string", def |-> "d"],
              [name |-> "b", kind |-> "value", def |-> 0],
              [name |-> "c", kind |-> "slice", def |-> <<0>>]}

ArgsFile == [name : {"a", "b"}, raw : RawVals]

ParsersFile == {
    [NoParser EXCEPT !.id = "e1", !.kind = "env", !.data = [NoData EXCEPT !["a"] = <<"2">>]],
    [NoParser EXCEPT !.id = "ea", !.kind = "env", !.pathFlag = "a"],
    [NoParser EXCEPT !.id = "fa", !.kind = "file", !.pathFlag = "a"],
    [NoParser EXCEPT !.id = "f1", !.kind = "file", !.path = "1"] }

InitFile == Init /\ errorHandling = ContinueOnError

\* One turn of the loop of Set.Parse with a parser that reads a file: a
\* parser whose path is the value of a flag holds the pointer Add returned.
RunFileParser(p) ==
    /\ p.pathFlag \in formal \cup {"-"}
    /\ RunParser(p)

NextFile ==
    \/ \E d \in DeclsFile : Add(d)
    \/ Resume
    \/ ParseCall
    \/ \E arg \in ArgsFile : ParseArg(arg)
    \/ \E n \in 0..MaxFilePasses : ParseStamp(n)
    \/ \E p \in ParsersFile : RunFileParser(p)
    \/ ParseReturn

SpecFile == InitFile /\ [][NextFile]_vars

(***************************************************************************)
(* The program around one value box: it builds the box with Slice,         *)
(* MustSlice or MustVar, calls Set on it and writes to the sequence it      *)
(* handed to Slice.                                                         *)
(***************************************************************************)
\* defaults := []int{...}; box := Slice(defaults, parse)
MakeSlice(d) ==
    /\ boxPc = "new"
    /\ caller' = [arr |-> Len(heap) + 1, len |-> Len(d)]
    /\ heap' = Slice(Append(heap, d), [arr |-> Len(heap) + 1, len |-> Len(d)]).heap
    /\ box' = Slice(Append(heap, d), [arr |-> Len(heap) + 1, len |-> Len(d)]).box
    /\ boxPc' = "built"
    /\ boxOp' = [op |-> "Slice", arg |-> d, err |-> nil, calls |-> 0]
    /\ UNCHANGED <<nBoxOps, setVars, zeroVars>>

\* MustSlice returned the box or panicked, after r.calls calls of parse.
MustSliceDone(defaults, r) ==
    /\ boxPc' = IF r.err # nil THEN "panicked" ELSE "built"
    /\ heap' = IF r.err # nil THEN heap ELSE Append(heap, r.vcopy)
    /\ box' = IF r.err # nil THEN box
              ELSE [kind |-> "slice",
                    Value |-> [arr |-> Len(heap) + 1, len |-> Len(defaults)],
                    written |-> FALSE]
    /\ boxOp' = [op |-> "MustSlice", arg |-> defaults, err |-> r.err, calls |-> r.calls]

\* box := MustSlice(defaults, parse)
MakeMustSlice(defaults) ==
    /\ boxPc = "new"
    /\ MustSliceDone(defaults, MustSlice(defaults))
    /\ UNCHANGED <<caller, nBoxOps, setVars, zeroVars>>

\* MustVar returned the box or panicked.
MustVarDone(defaultValue, r) ==
    /\ boxPc' = IF r.err # nil THEN "panicked" ELSE "built"
    /\ box' = IF r.err # nil THEN box
              ELSE [kind |-> "value", Value |-> r.value, written |-> FALSE]
    /\ boxOp' = [op |-> "MustVar", arg |-> <<defaultValue>>, err |-> r.err, calls |-> 1]

\* box := MustVar(defaultValue, setter)
MakeMustVar(defaultValue) ==
    /\ boxPc = "new"
    /\ MustVarDone(defaultValue, MustVar(defaultValue))
    /\ UNCHANGED <<heap, caller, nBoxOps, setVars, zeroVars>>

\* Set on the box returned r.
BoxSetDone(s, r) ==
    /\ heap' = r.heap
    /\ box' = r.box
    /\ boxOp' = [op |-> "Set", arg |-> <<s>>, err |-> r.err, calls |-> 1]

\* box.Set(s)
BoxSet(s) ==
    /\ boxPc = "built"
    /\ nBoxOps < MaxBoxOps
    /\ BoxSetDone(s, IF box.kind = "slice" THEN heapSliceSet(heap, box, s)
                     ELSE heapValueSet(heap, box, s))
    /\ nBoxOps' = nBoxOps + 1
    /\ UNCHANGED <<caller, boxPc, setVars, zeroVars>>

\* defaults[i-1] = LaterElem, by the caller of Slice after Slice returned.
CallerWrite(i) ==
    /\ boxPc = "built"
    /\ nBoxOps < MaxBoxOps
    /\ i \in 1..caller.len
    /\ heap' = [heap EXCEPT ![caller.arr][i] = LaterElem]
    /\ boxOp' = [op |-> "CallerWrite", arg |-> <<i>>, err |-> nil, calls |-> 0]
    /\ nBoxOps' = nBoxOps + 1
    /\ UNCHANGED <<caller, box, boxPc, setVars, zeroVars>>

InitBox == Init /\ errorHandling = ContinueOnError

NextBox ==
    \/ \E d \in SeqsUpTo(DefaultElems, MaxDefaults) : MakeSlice(d)
    \/ \E defaults \in SeqsUpTo(DefaultStrings, MaxDefaults) : MakeMustSlice(defaults)
    \/ \E s \in DefaultStrings : MakeMustVar(s)
    \/ \E s \in DefaultStrings : BoxSet(s)
    \/ \E i \in 1..MaxDefaults : CallerWrite(i)

SpecBox == InitBox /\ [][NextBox]_vars

(***************************************************************************)
(* The program around one Set that starts as the zero value or comes from  *)
(* NewSet: every public operation runs init, then does its own work.       *)
(***************************************************************************)
\* var set flagr.Set
DeclareZero ==
    /\ zborn.how = "none"
    /\ zborn' = [how |-> "zero", name |-> "", eh |-> ContinueOnError]
    /\ zset' = ZeroSet
    /\ UNCHANGED <<zlog, setVars, boxVars>>

\* set := flagr.NewSet(name, eh)
CallNewSet(name, eh) ==
    /\ zborn.how = "none"
    /\ zborn' = [how |-> "new", name |-> name, eh |-> eh]
    /\ zset' = NewSet(name, eh)
    /\ UNCHANGED <<zlog, setVars, boxVars>>

\* A public operation was called and leaves the Set as Z.
Called(op, arg, Z) ==
    /\ Len(zlog) < MaxZeroOps
    /\ zset' = Z
    /\ zlog' = Append(zlog, [op |-> op, arg |-> arg])
    /\ UNCHANGED <<zborn, setVars, boxVars>>

\* set.Name(), and alike every operation that reads the Set after init:
\* ErrorHandling, Output, Lookup, Parsed, NFlag, Args, Usage, PrintValues.
ZName ==
    /\ zborn.how # "none"
    /\ Called("Name", <<>>, init(zset))

\* set.SetUsage(usage)
ZSetUsage(usage) ==
    /\ zborn.how # "none"
    /\ Called("SetUsage", <<usage>>, [init(zset) EXCEPT !.fs.usage = usage])

\* set.Init(name, eh): fs.Init assigns the name and the policy.
ZInit(name, eh) ==
    /\ zborn.how # "none"
    /\ Called("Init", <<name, eh>>,
              [init(zset) EXCEPT !.fs.name = name, !.fs.errorHandling = eh])

\* Add(&set, name, value, usage) of a name not yet declared.
ZAdd(name) ==
    /\ zborn.how # "none"
    /\ name \notin zset.fs.formal
    /\ Called("Add", <<name>>, [init(zset) EXCEPT !.fs.formal = @ \cup {name}])

\* set.Set(src, name, value) with a value the flag accepts: an error for a
\* name that is not declared, else the provenance entry.
ZSet(src, name) ==
    /\ zborn.how # "none"
    /\ Called("Set", <<src, name>>,
              IF name \in zset.fs.formal
              THEN [init(zset) EXCEPT !.provideMap.m = Put(@, name, src)]
              ELSE init(zset))

InitZero == Init /\ errorHandling = ContinueOnError

NextZero ==
    \/ DeclareZero
    \/ \E name \in SetNames, eh \in {ContinueOnError, PanicOnError} : CallNewSet(name, eh)
    \/ ZName
    \/ \E usage \in UsageFuncs : ZSetUsage(usage)
    \/ \E name \in SetNames, eh \in {ContinueOnError, ExitOnError} : ZInit(name, eh)
    \/ \E name \in ZeroFlags : ZAdd(name)
    \/ \E src \in SetSources, name \in ZeroFlags : ZSet(src, name)

SpecZero == InitZero /\ [][NextZero]_vars

(***************************************************************************)
(* Value boxes of the fixed-width integer types (Int8, Uint16, Int8s, ...). *)
(* A string is a sequence of characters here, so that strconv has digits   *)
(* to read.  The repository holds two versions of parseInt and parseUint:  *)
(* flagr.go hands strconv the constant intSize, the later flagr.go (in     *)
(* part_004) the size of T; which of them a program is built with is a     *)
(* choice of the model.                                                    *)
(***************************************************************************)
MaxIntOps == 2   \* Set calls on one box

\* const intSize = 32 << (^uint(0) >> 63), on a 64-bit platform.
intSize == 64

\* The widths of the model; the limits of wider types are beyond the
\* integers of the model.
Widths == {8, 16}

\* The types T: signedness and width.
IntTypes == [signed : BOOLEAN, bits : Widths]

Versions == {"intSize", "Sizeof"}

DigitVal == [c \in {"0", "1", "2", "3", "4", "5", "6", "7", "8", "9"} |->
    CASE c = "0" -> 0 [] c = "1" -> 1 [] c = "2" -> 2 [] c = "3" -> 3 [] c = "4" -> 4
      [] c = "5" -> 5 [] c = "6" -> 6 [] c = "7" -> 7 [] c = "8" -> 8 [] c = "9" -> 9]

\* The strings handed to Set: around the limits of the types, and not a number.
NumStrings == {<<"1">>, <<"-", "1">>, <<"1", "2", "7">>, <<"1", "2", "8">>,
               <<"-", "1", "2", "8">>, <<"-", "1", "2", "9">>, <<"2", "5", "5">>,
               <<"2", "5", "6">>, <<"3", "0", "0">>, <<"3", "2", "7", "6", "8">>,
               <<"6", "5", "5", "3", "6">>, <<"x">>}

RECURSIVE Pow2(_)
Pow2(n) == IF n = 0 THEN 1 ELSE 2 * Pow2(n - 1)

\* The number a sequence of decimal digits denotes, acc being the digits read.
RECURSIVE digitsValue(_, _)
digitsValue(s, acc) ==
    IF s = <<>> THEN acc ELSE digitsValue(Tail(s), 10 * acc + DigitVal[Head(s)])

IsDigits(s) == s # <<>> /\ \A i \in DOMAIN s : s[i] \in DOMAIN DigitVal

ErrSyntax == <<"strconv: invalid syntax">>
ErrRange == <<"strconv: value out of range">>

\* The number fits in bitSize bits; every number of the model fits in 64.
fitsInt(n, bitSize) == bitSize >= 32 \/ (-Pow2(bitSize - 1) <= n /\ n < Pow2(bitSize - 1))
fitsUint(n, bitSize) == bitSize >= 32 \/ n < Pow2(bitSize)

\* The end of strconv.ParseInt and ParseUint: the range check on the number read.
ranged(n, fits) == IF fits THEN [v |-> n, err |-> nil] ELSE [v |-> 0, err |-> ErrRange]

\* strconv.ParseInt(s, 0, bitSize) on decimal strings with an optional sign.
strconvParseInt(s, bitSize) ==
    IF s # <<>> /\ Head(s) = "-" /\ IsDigits(Tail(s))
    THEN ranged(-digitsValue(Tail(s), 0), fitsInt(-digitsValue(Tail(s), 0), bitSize))
    ELSE IF IsDigits(s)
    THEN ranged(digitsValue(s, 0), fitsInt(digitsValue(s, 0), bitSize))
    ELSE [v |-> 0, err |-> ErrSyntax]

\* strconv.ParseUint(s, 0, bitSize): no sign.
strconvParseUint(s, bitSize) ==
    IF IsDigits(s) THEN ranged(digitsValue(s, 0), fitsUint(digitsValue(s, 0), bitSize))
    ELSE [v |-> 0, err |-> ErrSyntax]

\* The conversion T(v) of Go: the low bits of v, read as a T.
convert(T, v) ==
    IF T.signed
    THEN ((v + Pow2(T.bits - 1)) % Pow2(T.bits)) - Pow2(T.bits - 1)
    ELSE v % Pow2(T.bits)

\* return T(v), nil after strconv returned r.
converted(T, r) == IF r.err # nil THEN r ELSE [v |-> convert(T, r.v), err |-> nil]

\* parseInt[T] and parseUint[T] of the version that hands strconv intSize.
parseFixed_intSize(T, s) ==
    converted(T, IF T.signed THEN strconvParseInt(s, intSize) ELSE strconvParseUint(s, intSize))

\* parseInt[T] and parseUint[T] of the version that hands strconv the size of T.
parseFixed_Sizeof(T, s) ==
    converted(T, IF T.signed THEN strconvParseInt(s, T.bits) ELSE strconvParseUint(s, T.bits))

\* The parse function the box was built with.
parseFixed(b, s) ==
    IF b.version = "intSize" THEN parseFixed_intSize(b.T, s) ELSE parseFixed_Sizeof(b.T, s)

\* Set on a box of a fixed-width type after parse returned r: value[T].Set
\* assigns, slice[T,S].Set appends (no default to clear here).
fixedSet(b, r) ==
    IF r.err # nil THEN b
    ELSE IF b.kind = "slice" THEN [b EXCEPT !.Value = Append(@, r.v), !.written = TRUE]
    ELSE [b EXCEPT !.Value = r.v]

\* box := Int8(0), Uint16(0), ... or Int8s(), Uint16s(), ...
MakeFixed(k, T, version) ==
    /\ boxPc = "new"
    /\ boxPc' = "built"
    /\ box' = [kind |-> k, Value |-> IF k = "slice" THEN <<>> ELSE 0, written |-> FALSE,
               T |-> T, version |-> version]
    /\ boxOp' = [op |-> "Make", arg |-> <<>>, err |-> nil, calls |-> 0, was |-> <<>>]
    /\ UNCHANGED <<heap, caller, nBoxOps, setVars, zeroVars>>

\* box.Set(s) on a box of a fixed-width type.
FixedSet(s) ==
    /\ boxPc = "built"
    /\ nBoxOps < MaxIntOps
    /\ box' = fixedSet(box, parseFixed(box, s))
    /\ boxOp' = [op |-> "Set", arg |-> s, err |-> parseFixed(box, s).err, calls |-> 1,
                 was |-> <<box.Value>>]
    /\ nBoxOps' = nBoxOps + 1
    /\ UNCHANGED <<heap, caller, boxPc, setVars, zeroVars>>

InitInt == Init /\ errorHandling = ContinueOnError

NextInt ==
    \/ \E k \in {"value", "slice"}, T \in IntTypes, version \in Versions : MakeFixed(k, T, version)
    \/ \E s \in NumStrings : FixedSet(s)

SpecInt == InitInt /\ [][NextInt]_vars

(***************************************************************************)
(* Properties.                                                             *)
(***************************************************************************)
IsPrefix(s, q) == Len(s) <= Len(q) /\ \A i \in 1..Len(s) : s[i] = q[i]

Rank(n) == CHOOSE i \in DOMAIN NameOrder : NameOrder[i] = n

\* The value a flag holds after an extra parser fed it vals, one Set per element.
Fed(f, vals) ==
    IF kind[f] = "slice" THEN [i \in 1..Len(vals) |-> parseInt(vals[i]).v]
    ELSE parseInt(vals[Len(vals)]).v

ParseReturned == pc = "returned" /\ ret.op = "Parse"

ParseOK == ParseReturned /\ ret.err = nil

AllPassesOK == \A i \in DOMAIN passLog : passLog[i].err = nil

\* The value the source of the extra parser p holds for f (<<>>: none), and
\* the label p gives to f.
Holds(p, f) ==
    CASE p.kind = "env" -> IF p.data[f] # <<>> THEN p.data[f] ELSE p.file[f]
      [] p.kind = "file" /\ p.exists -> p.data[f]
      [] OTHER -> <<>>

Label(p, f) ==
    CASE p.kind = "env" -> IF p.data[f] # <<>> \/ p.envFile = "none"
                           THEN envSource(p.id, f)
                           ELSE envFileSource(p.envFile, p.id, f)
      [] OTHER -> fileSource

\* The extra parsers of the call, earliest first, whose source has a value for f.
Having(f) == {i \in DOMAIN passLog : Holds(passLog[i].p, f) # <<>>}

First(I) == CHOOSE i \in I : \A j \in I : i <= j

\* Value and provenance of f are those of the earliest extra parser that
\* has a value for it, and otherwise dflt with provenance "default".
Precedence(f, dflt) ==
    /\ f \in DOMAIN provideMap
    /\ IF Having(f) = {}
       THEN value[f] = dflt /\ provideMap[f] = SourceDefaultVal
       ELSE LET p == passLog[First(Having(f))].p IN
            /\ value[f] = Fed(f, Holds(p, f))
            /\ provideMap[f] = Label(p, f)

\* C1 as stated: after a successful Parse whose extra parsers all set, through
\* VisitRemaining, what their sources hold, every flag not given on the command
\* line has the value and provenance of the earliest extra parser that has a
\* value for it, and its declared default tagged "default" when none has.
C1_AsStated ==
    (ParseOK /\ AllPassesOK) =>
        \A f \in formal \ hist.cli : Precedence(f, defValue[f])

\* C1, amended: the same for every flag that is unset when the extra parsers
\* start (not given on the command line, and not set by an earlier Set or Parse
\* call); when no extra parser has a value, the flag keeps its declared default,
\* or is empty if it is a sequence flag on which a Set failed before.
C1_Precedence ==
    (ParseOK /\ AllPassesOK) =>
        \A f \in formal \ hist.atStart.actual :
            Precedence(f, IF hist.atStart.written[f] THEN <<>> ELSE defValue[f])

\* Two extra parsers that both hold a value for the same unset flag ran, in
\* either order, and a third flag was left to its default.
C1_Witness ==
    /\ ParseOK /\ AllPassesOK
    /\ \E f \in formal \ hist.atStart.actual : Cardinality(Having(f)) >= 2
    /\ \E f \in formal \ hist.atStart.actual : Having(f) = {}

\* The flags set by the extra parsers that ran before the j-th.
DidBefore(j) == UNION {passLog[i].did : i \in 1..(j - 1)}

\* The j-th extra parser saw exactly the flags of rest, in name order, up to
\* the end when it returned nil and up to the flag it failed on otherwise.
Saw(j, rest) ==
    IF passLog[j].err = nil THEN passLog[j].seen = sortFlags(rest)
    ELSE passLog[j].seen # <<>> /\ IsPrefix(passLog[j].seen, sortFlags(rest))

\* A flag an extra parser set is handed to no later extra parser of the call.
SetFlagsAbsentLater ==
    \A i, j \in DOMAIN passLog :
        i < j => passLog[i].did \cap Range(passLog[j].seen) = {}

\* The j-th extra parser got as far as calling VisitRemaining.
Walked(j) == opened(passLog[j].p) = <<"walk">>

\* C2 as stated: a flag that an extra parser set is absent from what every
\* later one sees, and each extra parser that calls VisitRemaining sees
\* exactly the flags set neither by the command line nor by an earlier extra
\* parser.
C2_AsStated ==
    /\ SetFlagsAbsentLater
    /\ \A j \in DOMAIN passLog :
           (Walked(j) /\ passLog[j].err = nil) =>
               Saw(j, formal \ (hist.cli \cup DidBefore(j)))

\* C2, amended: each extra parser that calls VisitRemaining sees exactly the
\* flags that are unset when it starts: set neither by the command line, nor by an earlier extra parser,
\* nor by a Set or Parse call before this Parse call (and, when it fails, only
\* those up to the flag it failed on).
C2_Remaining ==
    /\ SetFlagsAbsentLater
    /\ \A j \in DOMAIN passLog :
           Walked(j) => Saw(j, formal \ (hist.atStart.actual \cup DidBefore(j)))

\* The test's case: a, b, c declared, one given on the command line, a first
\* extra parser sets one of the others and the second one sees only the last.
C2_Witness ==
    /\ ParseOK /\ Len(passLog) = 2
    /\ formal = Names /\ hist.cli # {} /\ hist.atStart.actual = hist.cli
    /\ passLog[1].did # {}
    /\ Len(passLog[1].seen) = 2
    /\ Len(passLog[2].seen) = 1

\* C3: when Parse returns nil, every flag its primary parse took from the
\* command line holds the value the primary parse left in it and is tagged
\* "flags", whatever the extra parsers' sources hold.
C3_CommandLineWins ==
    ParseOK =>
        \A f \in hist.cli :
            /\ value[f] = hist.atStart.value[f]
            /\ f \in DOMAIN provideMap /\ provideMap[f] = SourceFlags

\* A flag given on the command line, and an extra parser that holds a value
\* for it and set some other flag.
C3_Witness ==
    /\ ParseOK
    /\ \E f \in hist.cli, i \in DOMAIN passLog :
           /\ Holds(passLog[i].p, f) # <<>>
           /\ passLog[i].did # {}

\* C4: under ContinueOnError, when the primary parse fails Parse returns that
\* very error and no extra parser is invoked.
C4_PrimaryFailureStops ==
    (errorHandling = ContinueOnError /\ hist.primErr # nil) =>
        /\ ParseReturned
        /\ ret.err = hist.primErr
        /\ passLog = <<>>

\* The primary parse failed on its second argument, after consuming a flag.
C4_Witness ==
    /\ errorHandling = ContinueOnError
    /\ ParseReturned /\ hist.primErr # nil /\ hist.cli # {} /\ nArgs = 2

\* C5: under ContinueOnError, once an extra parser has returned an error, Parse
\* has returned exactly that error, the failing parser is the last one that
\* ran, and every parser before it ran and returned nil.
C5_ParserFailureStops ==
    errorHandling = ContinueOnError =>
        \A k \in DOMAIN passLog :
            passLog[k].err # nil =>
                /\ ParseReturned
                /\ ret.err = passLog[k].err
                /\ k = Len(passLog)
                /\ \A i \in 1..(k - 1) : passLog[i].err = nil

\* The second of three extra parsers failed: the third never ran.
C5_Witness ==
    /\ errorHandling = ContinueOnError
    /\ ParseReturned /\ ret.err # nil
    /\ Len(passLog) = 2 /\ nPasses = 3

\* Parse returned the error of an extra parser that ran after at least one
\* extra parser that returned nil.
FailedAfterGood ==
    /\ ParseReturned /\ ret.err # nil
    /\ Len(passLog) >= 2
    /\ passLog[Len(passLog)].err # nil
    /\ \A i \in 1..(Len(passLog) - 1) : passLog[i].err = nil

C7_AsStated ==
    ParseOK =>
        \A f \in formal :
            /\ f \in DOMAIN provideMap
            /\ provideMap[f] =
                 IF f \in hist.cli THEN SourceFlags
                 ELSE IF \E i \in DOMAIN passLog : f \in passLog[i].did
                 THEN Label(passLog[CHOOSE i \in DOMAIN passLog : f \in passLog[i].did].p, f)
                 ELSE IF f \in hist.atCall.actual /\ f \in DOMAIN hist.atCall.provideMap
                 THEN hist.atCall.provideMap[f]
                 ELSE SourceDefaultVal

\* C8: a Set call that fails returns the error of the lookup or of the flag's
\* value box, leaves the provenance map and fs.actual (what Visit,
\* VisitRemaining and NFlag count as set) as they were, and leaves every
\* value[T] flag's value as it was.
C8_FailedSetChangesNothing ==
    (pc = "returned" /\ ret.op = "Set" /\ ret.err # nil) =>
        /\ ret.err = IF ret.arg \in formal THEN parseInt("x").err
                     ELSE <<"no such flag", ret.arg>>
        /\ provideMap = hist.atCall.provideMap
        /\ actual = hist.atCall.actual
        /\ \A f \in formal : kind[f] = "value" => value[f] = hist.atCall.value[f]

\* A Set call with a string the flag rejects, on a value[T] flag that holds a
\* value other than its default.
C8_Witness ==
    /\ pc = "returned" /\ ret.op = "Set" /\ ret.err # nil
    /\ ret.arg \in formal /\ kind[ret.arg] = "value"
    /\ value[ret.arg] # defValue[ret.arg]

VisitOps == {"VisitAll", "Visit", "VisitRemaining"}

\* The flags a walk is about.
Matching(op) ==
    CASE op = "VisitAll" -> formal
      [] op = "Visit" -> actual
      [] op = "VisitRemaining" -> formal \ actual

\* C9: a walk invokes the callback in increasing name order on its matching
\* flags, on all of them and returns nil when the callback never fails, and on
\* those up to and including the flag the callback fails on otherwise, and then
\* it returns the callback's error.
C9_VisitOrderAndStop ==
    (pc = "returned" /\ ret.op \in VisitOps) =>
        LET M == Matching(ret.op)
            hit == ret.arg \in M
            upto == IF hit THEN {f \in M : Rank(f) <= Rank(ret.arg)} ELSE M
        IN /\ Range(ret.seen) = upto
           /\ Len(ret.seen) = Cardinality(upto)
           /\ \A i, j \in DOMAIN ret.seen : i < j => Rank(ret.seen[i]) < Rank(ret.seen[j])
           /\ ret.err = IF hit THEN sentinel ELSE nil

\* VisitRemaining over three unset flags with a callback failing at the second.
C9_Witness ==
    /\ pc = "returned" /\ ret.op = "VisitRemaining"
    /\ ret.err = sentinel /\ ret.seen = <<"a", "b">>
    /\ formal \ actual = Names

\* The names a walk hands to a callback that never fails.
Visited(op) ==
    LET cb == [kind |-> "seen"]
        W == [S |-> Cur, seen |-> <<>>]
    IN CASE op = "VisitAll" -> VisitAll(cb, W).W.seen
         [] op = "Visit" -> Visit(cb, W).W.seen
         [] op = "VisitRemaining" -> VisitRemaining(cb, W).W.seen

\* C10: in every state VisitAll visits every declared flag once, Visit the
\* flags of fs.actual (set by the command line or a successful Set) once, and
\* VisitRemaining the others once: two disjoint sets whose union is all flags.
C10_VisitPartition ==
    /\ Range(Visited("VisitAll")) = formal
    /\ Len(Visited("VisitAll")) = Cardinality(formal)
    /\ Range(Visited("Visit")) = actual
    /\ Len(Visited("Visit")) = Cardinality(actual)
    /\ Range(Visited("VisitRemaining")) = formal \ actual
    /\ Len(Visited("VisitRemaining")) = Cardinality(formal \ actual)
    /\ Range(Visited("Visit")) \cap Range(Visited("VisitRemaining")) = {}
    /\ Range(Visited("Visit")) \cup Range(Visited("VisitRemaining")) = Range(Visited("VisitAll"))

\* One flag set by the command line, one by a Set call, one unset, and a
\* VisitRemaining call that returned.
C10_Witness ==
    /\ pc = "returned" /\ ret.op = "VisitRemaining" /\ ret.arg = "-"
    /\ Len(ret.seen) = 1
    /\ \E f, g \in actual \cap DOMAIN provideMap :
           provideMap[f] = SourceFlags /\ provideMap[g] = <<"manual">>

\* C11 as stated: a slice[T,S] flag on which N >= 1 Set calls succeeded holds
\* exactly the N parsed elements in the order of the calls and no element of
\* its default; with N = 0 it holds its default.
C11_AsStated ==
    \A f \in formal :
        kind[f] = "slice" =>
            value[f] = IF Len(fed[f]) >= 1 THEN fed[f] ELSE defValue[f]

\* C11, amended: the same, except that with N = 0 the flag holds its default
\* only while no Set call was made on it at all: once a Set call failed on it
\* (slice.written is set) it is empty.
C11_FirstWriteReplaces ==
    \A f \in formal :
        kind[f] = "slice" =>
            value[f] = IF written[f] THEN fed[f] ELSE defValue[f]

\* A sequence flag fed three elements: one by a Set call, two by two
\* occurrences on the command line.
C11_Witness ==
    \E f \in formal : kind[f] = "slice" /\ Len(fed[f]) >= 3 /\ value[f] = fed[f]

\* C13: an Add call with a name that is already declared panics, and leaves
\* the declared flags, their value boxes and values, fs.actual and the
\* provenance map as they were.
C13_DuplicateAddPanics ==
    [][(pc = "idle" /\ ret'.op = "Add" /\ ret'.arg \in formal) =>
          /\ pc' = "panicked"
          /\ formal' = formal /\ kind' = kind /\ defValue' = defValue
          /\ value' = value /\ written' = written
          /\ actual' = actual /\ provideMap' = provideMap]_vars

\* Add panicked on the name of a flag that holds a value other than its
\* default and has a provenance entry.
C13_Witness ==
    /\ pc = "panicked" /\ ret.op = "Add"
    /\ ret.arg \in actual /\ ret.arg \in DOMAIN provideMap
    /\ value[ret.arg] # defValue[ret.arg]

\* The Parse call failed: its primary parse or one of its extra parsers
\* returned an error.
ParseFailed ==
    \/ hist.primErr # nil
    \/ \E k \in DOMAIN passLog : passLog[k].err # nil

\* C15 as stated: under ExitOnError a failure of Parse, of the primary parse
\* or of an extra parser alike, ends the process with exit code 0 when the
\* error is ErrHelp and 2 otherwise.
C15_AsStated ==
    (errorHandling = ExitOnError /\ ParseFailed) =>
        /\ pc = "exited"
        /\ exitCode = IF ret.err = ErrHelp THEN 0 ELSE 2

\* C16 as stated: whatever the ErrorHandling value, once an extra parser has
\* returned an error no later extra parser is invoked and Parse does not
\* return nil.
C16_AsStated ==
    \A k \in DOMAIN passLog :
        passLog[k].err # nil =>
            /\ k = Len(passLog)
            /\ pc # "passes"
            /\ ~ParseOK

\* C18: fs.parsed is false as long as Parse was never called and true from
\* the first call on, whether the call returns nil, the error of the primary
\* parse or the error of an extra parser.
C18_Parsed ==
    /\ parsed <=> nParses > 0
    /\ ParseReturned => parsed

\* A Parse call returned the error of its primary parse, or of an extra parser.
C18_Witness ==
    /\ ParseReturned /\ ret.err # nil /\ parsed
    /\ passLog # <<>>

\* The flags that are unset when the j-th extra parser starts.
UnsetBefore(j) == formal \ (hist.atStart.actual \cup DidBefore(j))

\* C19: an env parser that returns nil has, for every flag unset when it
\* started: set it to the value of the lookup function and tagged it
\* "env: NAME" if the lookup function has the name; otherwise set it to the
\* value of the dotenv file and tagged it "envfile[path]: NAME" if a dotenv
\* file is configured and has the name; otherwise left it unset, and as long
\* as no later parser sets it the flag is tagged "default" and, if no Set call
\* was ever made on it, holds its default.
C19_EnvLookupThenFile ==
    \A j \in DOMAIN passLog :
        (passLog[j].p.kind = "env" /\ passLog[j].err = nil) =>
            LET q == passLog[j].p IN
            \A f \in UnsetBefore(j) :
                IF q.data[f] # <<>>
                THEN /\ f \in passLog[j].did
                     /\ value[f] = Fed(f, q.data[f])
                     /\ provideMap[f] = <<"env", q.id, f>>
                ELSE IF q.envFile # "none" /\ q.file[f] # <<>>
                THEN /\ f \in passLog[j].did
                     /\ value[f] = Fed(f, q.file[f])
                     /\ provideMap[f] = <<"envfile", q.envFile, q.id, f>>
                ELSE /\ f \notin passLog[j].did
                     /\ j = Len(passLog) =>
                            /\ f \notin actual
                            /\ provideMap[f] = SourceDefaultVal
                            /\ ~written[f] => value[f] = defValue[f]

\* An env parser with a dotenv file ran on three unset flags: the lookup
\* function has the first (the file has it too), only the file has the
\* second, neither has the third.
C19_Witness ==
    /\ ParseOK /\ Len(passLog) = 1
    /\ passLog[1].p.envFile # "none"
    /\ UnsetBefore(1) = Names
    /\ passLog[1].did = {"a", "b"}
    /\ passLog[1].p.data["a"] # <<>> /\ passLog[1].p.file["a"] # <<>>

\* The step is the call of a file parser whose file does not exist.
MissingFileStep(ignore) ==
    /\ Len(passLog') = Len(passLog) + 1
    /\ passLog'[Len(passLog')].p.kind = "file"
    /\ ~passLog'[Len(passLog')].p.exists
    /\ passLog'[Len(passLog')].p.ignoreMissing = ignore

\* C20 as stated: a file parser whose file does not exist returns nil and
\* changes no value and no provenance entry with IgnoreMissingFile; without
\* it, it returns an error that wraps the not-exist error and Parse stops:
\* it invokes no further extra parser.
C20_AsStated ==
    [][/\ MissingFileStep(TRUE) =>
            /\ passLog'[Len(passLog')].err = nil
            /\ value' = value /\ provideMap' = provideMap /\ actual' = actual
       /\ MissingFileStep(FALSE) =>
            /\ passLog'[Len(passLog')].err = <<"file">> \o ErrNotExist
            /\ pc' # "passes"]_vars

\* C12: the storage of a slice[T,S] box is not the caller's default
\* sequence: no Set call on the box changes what the caller's sequence holds,
\* and no write of the caller to its sequence changes what the box holds.
C12_NoAliasing ==
    [][/\ (nBoxOps' # nBoxOps /\ boxOp'.op = "Set") =>
            View(heap', caller') = View(heap, caller)
       /\ (nBoxOps' # nBoxOps /\ boxOp'.op = "CallerWrite") =>
            /\ View(heap', box'.Value) = View(heap, box.Value)
            /\ View(heap', caller')[boxOp'.arg[1]] = LaterElem]_vars

\* A box built by Slice from a default of two elements took two elements by
\* Set, the first stored in place, and the caller then wrote to its sequence:
\* the caller still has its two elements, with the one it wrote.
C12_Witness ==
    /\ boxOp.op = "CallerWrite"
    /\ caller.len = 2 /\ box.written
    /\ View(heap, box.Value) = <<1, 2>>
    /\ View(heap, caller) \in {<<9, 7>>, <<0, 9>>}

\* The defaults that parse rejects, by their place in the list.
Rejected(defaults) == {i \in DOMAIN defaults : parseInt(defaults[i]).err # nil}

\* C14: MustVar panics when the setter rejects the default string; MustSlice
\* panics at the first default that parse rejects, after exactly that many
\* calls of parse; when every default parses the box holds the parsed
\* defaults in order.
C14_MustPanics ==
    /\ boxOp.op = "MustVar" =>
         IF parseInt(boxOp.arg[1]).err # nil THEN boxPc = "panicked"
         ELSE boxPc = "built" /\ box.Value = parseInt(boxOp.arg[1]).v
    /\ boxOp.op = "MustSlice" =>
         IF Rejected(boxOp.arg) # {}
         THEN /\ boxPc = "panicked"
              /\ \A i \in Rejected(boxOp.arg) : boxOp.calls <= i
              /\ boxOp.calls \in Rejected(boxOp.arg)
         ELSE /\ boxPc = "built"
              /\ boxOp.calls = Len(boxOp.arg)
              /\ View(heap, box.Value) = [i \in DOMAIN boxOp.arg |-> parseInt(boxOp.arg[i]).v]

\* MustSlice panicked at the second of three defaults, the third of which is
\* rejected too.
C14_Witness ==
    /\ boxOp.op = "MustSlice" /\ boxPc = "panicked"
    /\ Rejected(boxOp.arg) = {2, 3}
    /\ boxOp.calls = 2

\* The calls of op in the log, by their place.
CallsOf(op) == {i \in DOMAIN zlog : zlog[i].op = op}

\* The last call of op.
LastOf(op) == CHOOSE i \in CallsOf(op) : \A j \in CallsOf(op) : j <= i

\* The Set calls on a declared name: those that returned nil.
SetsOf(name) ==
    {i \in CallsOf("Set") : zlog[i].arg[2] = name /\ \E j \in CallsOf("Add") :
                                                      j < i /\ zlog[j].arg[1] = name}

\* C17: once a public operation has been called the Set is ready (fs,
\* provideMap and the usage function are there) and init changes nothing in
\* it; the zero Set has the empty name and ContinueOnError until Init says
\* otherwise; and the Set holds every flag declared, the provenance entries
\* of the Set calls and the last usage function given to SetUsage, whatever
\* operations (each of which ran init) came after.
C17_ZeroValueReady ==
    zlog # <<>> =>
        /\ zset.fs.made /\ zset.provideMap.made /\ zset.fs.usage # "nil"
        /\ init(zset) = zset
        /\ zset.fs.name = IF CallsOf("Init") # {} THEN zlog[LastOf("Init")].arg[1]
                          ELSE zborn.name
        /\ zset.fs.errorHandling = IF CallsOf("Init") # {} THEN zlog[LastOf("Init")].arg[2]
                                   ELSE zborn.eh
        /\ zborn.how = "zero" => zborn.name = "" /\ zborn.eh = ContinueOnError
        /\ zset.fs.formal = {zlog[i].arg[1] : i \in CallsOf("Add")}
        /\ DOMAIN zset.provideMap.m = {n \in ZeroFlags : SetsOf(n) # {}}
        /\ \A n \in DOMAIN zset.provideMap.m : zset.provideMap.m[n] = <<"manual">>
        /\ zset.fs.usage = IF CallsOf("SetUsage") # {} THEN zlog[LastOf("SetUsage")].arg[1]
                           ELSE IF zborn.how = "zero" THEN "default" ELSE "std"

\* A zero Set took a flag, a provenance entry and a usage function, in that
\* order: the later operations' init kept the earlier ones' work.
C17_Witness ==
    /\ zborn.how = "zero" /\ Len(zlog) = 3
    /\ zlog[1].op = "Add" /\ zlog[2].op = "Set" /\ zlog[3].op = "SetUsage"
    /\ zset.fs.formal # {} /\ DOMAIN zset.provideMap.m # {}
    /\ zset.fs.usage = "custom1"
    /\ zset.fs.name = ""

\* C23: the flags VisitRemaining hands to a callback are worked out at each
\* call: within one call no flag is handed twice, the flags the callback set
\* were handed to it in that call, and a flag it set is handed to no later
\* call, of a later extra parser or of the program.
C23_FreshEachCall ==
    /\ \A j \in DOMAIN passLog :
          /\ \A i1, i2 \in DOMAIN passLog[j].seen :
                passLog[j].seen[i1] = passLog[j].seen[i2] => i1 = i2
          /\ passLog[j].did \subseteq Range(passLog[j].seen)
          /\ \A k \in DOMAIN passLog :
                k > j => passLog[j].did \cap Range(passLog[k].seen) = {}
    /\ (pc = "returned" /\ ret.op = "VisitRemaining") => Range(ret.seen) \cap actual = {}

\* The first extra parser set a flag while the walk was at it, and the second
\* walked the flags that were left.
C23_Witness ==
    /\ Len(passLog) >= 2
    /\ passLog[1].did # {} /\ passLog[1].err = nil
    /\ passLog[2].seen # <<>>
    /\ Range(passLog[2].seen) # Range(passLog[1].seen)

\* C26 as stated: right after the stamping of a Parse call a declared flag is
\* tagged "flags" if the primary parse of this call consumed it and "default"
\* otherwise, whatever set it before the call.
C26_AsStated ==
    (pc = "passes" /\ passLog = <<>>) =>
        \A f \in formal :
            provideMap[f] = IF f \in hist.cli THEN SourceFlags ELSE SourceDefaultVal

\* C28 as stated: a flag tagged "default" holds its declared default.
C28_AsStated ==
    \A f \in formal \cap DOMAIN provideMap :
        provideMap[f] = SourceDefaultVal => value[f] = defValue[f]

\* C28: until Parse is called a second time on the Set, a flag tagged
\* "default" holds its declared default, except a slice[T,S] flag on which a
\* Set call was made: every such call failed, the first of them emptied the
\* flag, and it is empty.
C28_DefaultKeepsValue ==
    nParses <= 1 =>
        \A f \in formal \cap DOMAIN provideMap :
            provideMap[f] = SourceDefaultVal =>
                value[f] = IF kind[f] = "slice" /\ written[f] THEN <<>> ELSE defValue[f]

\* Parse returned the error of an extra parser; a scalar flag that an
\* earlier Set call failed on, or that a parser failed on, is tagged
\* "default" and holds its default, and so does a sequence flag nothing
\* touched.
C28_Witness ==
    /\ ParseReturned /\ ret.err # nil /\ passLog # <<>>
    /\ \E f, g \in formal :
          /\ kind[f] = "value" /\ provideMap[f] = SourceDefaultVal /\ value[f] = defValue[f]
          /\ kind[g] = "slice" /\ provideMap[g] = SourceDefaultVal /\ ~written[g]
          /\ value[g] = defValue[g] /\ defValue[g] # <<>>

\* The values the Set calls of the running Parse call parsed for f.
NewThisCall(f) == SubSeq(fed[f], Len(hist.atCall.fed[f]) + 1, Len(fed[f]))

\* C22: a flag that the primary parse of a Parse call consumed holds, if it
\* is a sequence flag that was written before the call, the elements it held
\* when Parse was called followed by the elements of this call, in order (if
\* it was never written: the elements of this call); if it is a scalar flag,
\* the last value of this call.
C22_SecondParseAppends ==
    \A f \in hist.cli :
        /\ NewThisCall(f) # <<>>
        /\ IF kind[f] = "slice"
           THEN value[f] = (IF hist.atCall.written[f] THEN hist.atCall.value[f] ELSE <<>>)
                            \o NewThisCall(f)
           ELSE value[f] = NewThisCall(f)[Len(NewThisCall(f))]

\* The second Parse call returned nil; the sequence flag c and the scalar
\* flag a were given on the command line of both calls, with 1 in the first
\* and 2 in the second.
C22_Witness ==
    /\ nParses = 2 /\ nSets = 0 /\ ParseOK
    /\ {"a", "c"} \subseteq hist.cli
    /\ {"a", "c"} \subseteq DOMAIN hist.atCall.provideMap
    /\ hist.atCall.provideMap["c"] = SourceFlags /\ hist.atCall.provideMap["a"] = SourceFlags
    /\ hist.atCall.value["c"] = <<1>> /\ value["c"] = <<1, 2>>
    /\ hist.atCall.value["a"] = 1 /\ value["a"] = 2

\* C25 as stated: as long as the program makes no Set call, no step removes
\* a provenance entry, and no step changes an entry that holds a source other
\* than "default".
C25_AsStated ==
    [][nSets' = 0 =>
         \A f \in DOMAIN provideMap :
            /\ f \in DOMAIN provideMap'
            /\ provideMap[f] # SourceDefaultVal => provideMap'[f] = provideMap[f]]_vars

\* C27 as stated: after one Parse call and any Set calls, a flag with a
\* provenance entry is visited by Visit if and only if its entry is not
\* "default", and by VisitRemaining if and only if it is.
C27_AsStated ==
    (nParses = 1 /\ pc = "idle") =>
        \A f \in formal \cap DOMAIN provideMap :
            /\ f \in Range(Visited("Visit")) <=> provideMap[f] # SourceDefaultVal
            /\ f \in Range(Visited("VisitRemaining")) <=> provideMap[f] = SourceDefaultVal

\* C27: after one Parse call and any Set calls, a flag whose provenance entry
\* is not "default" is visited by Visit and not by VisitRemaining, a flag that
\* VisitRemaining visits has the entry "default", every flag is visited by
\* exactly one of the two, and a flag that Visit visits has the entry
\* "default" only when the program made a Set call.
C27_SourcedFlagsAreSet ==
    (nParses = 1 /\ pc = "idle") =>
        \A f \in formal \cap DOMAIN provideMap :
            /\ provideMap[f] # SourceDefaultVal =>
                  /\ f \in Range(Visited("Visit"))
                  /\ f \notin Range(Visited("VisitRemaining"))
            /\ f \in Range(Visited("VisitRemaining")) => provideMap[f] = SourceDefaultVal
            /\ f \in Range(Visited("Visit")) <=> f \notin Range(Visited("VisitRemaining"))
            /\ (f \in Range(Visited("Visit")) /\ provideMap[f] = SourceDefaultVal) => nSets > 0

\* After a Parse call and two Set calls, one flag tagged by a Set call is
\* visited by Visit, another tagged "default" by VisitRemaining.
C27_Witness ==
    /\ nParses = 1 /\ nSets = 2 /\ pc = "idle"
    /\ \E f, g \in formal \cap DOMAIN provideMap :
          /\ provideMap[f] = <<"manual">> /\ f \in Range(Visited("Visit"))
          /\ provideMap[g] = SourceDefaultVal /\ g \in Range(Visited("VisitRemaining"))

\* A walk with a callback that sets a flag has returned.
WalkSet == pc = "returned" /\ ret.op = "VisitRemaining setting"

TreeOf(L) == found(L.p, L.opens).tree

\* The node is an object, or a list that holds one at some depth.
RECURSIVE HoldsObject(_)
HoldsObject(node) ==
    \/ node.t = "object"
    \/ node.t = "list" /\ \E i \in DOMAIN node.elems : HoldsObject(node.elems[i])

\* What the tree holds for the flag f is or holds an object.
Unsupported(tree, f) == HoldsObject(tree[f])

\* C21: a file pass is handed only flags that are unset when it runs, and sets
\* only flags among them whose key the decoded tree holds; a flag whose key is
\* missing stays unset with its default; at a flag whose key holds an object
\* (also inside a list) the pass returns ErrVal naming that key without
\* touching the flag, and sets no later flag.
C21_FilePass ==
    \A j \in DOMAIN passLog :
        passLog[j].p.kind = "file" =>
            /\ passLog[j].did \subseteq
                  {f \in Range(passLog[j].seen) :
                      find(TreeOf(passLog[j]), f).ok /\ ~Unsupported(TreeOf(passLog[j]), f)}
            /\ \A f \in Range(passLog[j].seen) :
                  /\ Unsupported(TreeOf(passLog[j]), f) =>
                        /\ passLog[j].err = ErrVal(f, unsupported)
                        /\ f = passLog[j].seen[Len(passLog[j].seen)]
                        /\ f \notin passLog[j].did
                  /\ j = Len(passLog) =>
                        /\ f \notin actual \ passLog[j].did
                        /\ f \in passLog[j].did => provideMap[f] = fileSource
                        /\ (~find(TreeOf(passLog[j]), f).ok \/ Unsupported(TreeOf(passLog[j]), f)) =>
                              /\ f \notin actual
                              /\ value[f] = defValue[f]
                              /\ ~written[f]
                              /\ provideMap[f] = SourceDefaultVal
            /\ \A i1, i2 \in DOMAIN passLog[j].seen :
                  i1 < i2 => \E n1, n2 \in DOMAIN NameOrder :
                                n1 < n2 /\ NameOrder[n1] = passLog[j].seen[i1]
                                        /\ NameOrder[n2] = passLog[j].seen[i2]

\* file.Parse on the file "1" with nothing set: the key of a is missing, b
\* is set to 1, and the list of c holds an object.
C21_Witness ==
    /\ formal = Names
    /\ Len(passLog) = 1
    /\ passLog[1].p.id = "f1"
    /\ passLog[1].seen = <<"a", "b", "c">>
    /\ passLog[1].did = {"b"}
    /\ passLog[1].err = ErrVal("c", unsupported)
    /\ value = [a |-> "d", b |-> 1, c |-> <<0>>]

\* Some extra parser before the j-th one set the flag a.
SetByEarlierPass(j, a) == \E k \in 1..(j - 1) : a \in passLog[k].did

\* The string the flag f was last set to when the extra parsers start.
LastGiven(f) == hist.atStart.fed[f][Len(hist.atStart.fed[f])]

\* What the file at the path holds for the scalar flag f, as the parser p
\* hands it to Set.Set.
HeldFor(p, path, f) ==
    IF p.kind = "file"
    THEN Head(stringify(Files[path].tree[f], [values |-> <<>>, err |-> nil]).values)
    ELSE Head(Files[path].env[f])

\* C30: a parser whose path is the value of a flag opens the path that flag
\* holds when the parser runs: the value an earlier extra parser of the call
\* gave it, else the value from the command line, else the default; and the
\* scalar flags it sets hold what the file at that path holds for them.
C30_PathReadAtRun ==
    \A j \in DOMAIN passLog :
        passLog[j].p.pathFlag # "-" =>
            /\ passLog[j].opens =
                  IF SetByEarlierPass(j, passLog[j].p.pathFlag) THEN value[passLog[j].p.pathFlag]
                  ELSE hist.atStart.value[passLog[j].p.pathFlag]
            /\ (~SetByEarlierPass(j, passLog[j].p.pathFlag)
                   /\ passLog[j].p.pathFlag \in hist.cli) =>
                  passLog[j].opens = LastGiven(passLog[j].p.pathFlag)
            /\ (~SetByEarlierPass(j, passLog[j].p.pathFlag)
                   /\ passLog[j].p.pathFlag \notin hist.atStart.actual) =>
                  passLog[j].opens = defValue[passLog[j].p.pathFlag]
            /\ \A f \in passLog[j].did :
                  kind[f] = "value" =>
                      value[f] = parseInt(HeldFor(passLog[j].p, passLog[j].opens, f)).v

\* The env pass e1 put "2" in the flag a, whose default is "d"; the file pass
\* after it opened "2", and the dotenv pass in its place set b from "2".
C30_Witness ==
    /\ formal = Names
    /\ Len(passLog) = 2
    /\ passLog[1].p.id = "e1" /\ passLog[1].did = {"a"}
    /\ passLog[2].p.pathFlag = "a" /\ passLog[2].opens = "2"
    /\ defValue["a"] = "d"
    /\ \/ passLog[2].p.kind = "file" /\ passLog[2].err = ErrVal("b", unsupported)
       \/ passLog[2].p.kind = "env" /\ value["b"] = 2

\* The number the string denotes, if it is one.
Denotes(s) == strconvParseInt(s, intSize)

\* The number is one a T can hold.
Holds_T(T, n) ==
    IF T.signed THEN -Pow2(T.bits - 1) <= n /\ n < Pow2(T.bits - 1)
    ELSE 0 <= n /\ n < Pow2(T.bits)

\* A Set call was made on a box of a fixed-width type with a numeric string
\* that does not fit the type.
SetOutOfRange ==
    /\ boxPc = "built" /\ boxOp.op = "Set"
    /\ Denotes(boxOp.arg).err = nil
    /\ ~Holds_T(box.T, Denotes(boxOp.arg).v)

\* C29 as stated: Set with a numeric string that does not fit in the width of
\* the box's type returns an error and leaves the box as it was.
C29_AsStated == SetOutOfRange => (boxOp.err # nil /\ <<box.Value>> = boxOp.was)

\* Set("300") on an Int8 box built with the parse functions that hand strconv
\* intSize returned nil and stored 44.
C29_Witness ==
    /\ SetOutOfRange
    /\ box.kind = "value" /\ box.T = [signed |-> TRUE, bits |-> 8] /\ box.version = "intSize"
    /\ boxOp.arg = <<"3", "0", "0">>
    /\ boxOp.err = nil
    /\ box.Value = 44

\* With the parse functions that hand strconv the size of T, the statement holds.
SizeofRejects == (SetOutOfRange /\ box.version = "Sizeof") =>
                  (boxOp.err = ErrRange \/ boxOp.err = ErrSyntax) /\ <<box.Value>> = boxOp.was

====
